---- MODULE Spec2Model ----
(***************************************************************************)
(* NDS Database Manager (src/manager.py): the catalog of GameEntry /       *)
(* RomVersion records, the artifact directories assets/roms and            *)
(* assets/covers, the persisted database.json and the bulk compression     *)
(* worker thread.                                                          *)
(*                                                                         *)
(* Strings the program processes character by character (game ids, region  *)
(* codes, names, file names, artifact keys) are sequences of one-character *)
(* strings.  Qt widgets are modelled only as far as they hold state the    *)
(* handlers read: the current item of rom_list and the items of            *)
(* related_roms_list.  base_url is the empty string (no url.txt).          *)
(*                                                                         *)
(* Writing database.json and unlinking a file succeed; packing a ROM and   *)
(* storing a cover can fail (PackOutcomes, CoverOutcomes).  One pass of    *)
(* the worker's loop is one step; the GUI thread's handlers may run        *)
(* between two passes.                                                     *)
(*                                                                         *)
(* Spec is the catalog from a first start with no database.json;           *)
(* SpecRepack is the bulk compression from a start on a database of        *)
(* unpacked ROMs; SpecRepackEdit adds the edit dialog to it; SpecLoad is   *)
(* the load at start-up of a database.json that may be an older one, a     *)
(* malformed one or not JSON at all.  SpecRepackFair is SpecRepack with    *)
(* the worker thread and the event loop scheduled.  SpecPick is the file   *)
(* picker of the regional-ROM dialog reading ROM files and archives byte   *)
(* by byte (bytes are 0..255); SpecPack adds packing the picked ROM and    *)
(* picking the archive written.                                            *)
(***************************************************************************)
EXTENDS Integers, Sequences, FiniteSets, TLC

\* ------------------------------------------------------------------ bounds
\* an ingest starts only while fewer than MaxUuid uuid4() values have been drawn
MaxUuid == 3
\* legacy (unpacked) variants in the database found at start-up
MaxLegacy == 2
\* edit dialogs the user accepts
MaxEdits == 1

\* ------------------------------------------------------- character strings
UpperCase ==
  <<"A","B","C","D","E","F","G","H","I","J","K","L","M",
    "N","O","P","Q","R","S","T","U","V","W","X","Y","Z">>
LowerCase ==
  <<"a","b","c","d","e","f","g","h","i","j","k","l","m",
    "n","o","p","q","r","s","t","u","v","w","x","y","z">>
Digits == <<"0","1","2","3","4","5","6","7","8","9">>

\* '\x00'
Nul == "NUL"

\* code-point order of the characters the model uses
AsciiOrder ==
  <<Nul, " ", "-", ".", "/">> \o Digits \o <<":">> \o UpperCase \o <<"_">> \o LowerCase

Range(s) == {s[i] : i \in 1..Len(s)}
IndexOf(s, c) == CHOOSE i \in 1..Len(s) : s[i] = c
OrdTable == [c \in Range(AsciiOrder) |-> IndexOf(AsciiOrder, c)]
Ord(c) == OrdTable[c]

\* str.lower() / str.upper() of one character
LowerTable ==
  [c \in Range(AsciiOrder) |->
     IF c \in Range(UpperCase) THEN LowerCase[IndexOf(UpperCase, c)] ELSE c]
UpperTable ==
  [c \in Range(AsciiOrder) |->
     IF c \in Range(LowerCase) THEN UpperCase[IndexOf(LowerCase, c)] ELSE c]
lower_char(c) == LowerTable[c]
upper_char(c) == UpperTable[c]
lower(s) == [i \in 1..Len(s) |-> lower_char(s[i])]

\* Python's < on str: lexicographic by code point
RECURSIVE str_less(_, _)
str_less(s, t) ==
  IF t = <<>> THEN FALSE
  ELSE IF s = <<>> THEN TRUE
  ELSE IF s[1] # t[1] THEN Ord(s[1]) < Ord(t[1])
  ELSE str_less(Tail(s), Tail(t))

startswith(s, p) == Len(s) >= Len(p) /\ SubSeq(s, 1, Len(p)) = p

\* str(int)
RECURSIVE str_of_int(_)
str_of_int(n) ==
  IF n < 10 THEN <<Digits[n + 1]>>
  ELSE str_of_int(n \div 10) \o <<Digits[(n % 10) + 1]>>

\* list.sort(key=...): stable; pairs is the list as <<key, item>> pairs
RECURSIVE insert_sorted(_, _)
insert_sorted(x, s) ==
  IF s = <<>> THEN <<x>>
  ELSE IF str_less(x[1], s[1][1]) THEN <<x>> \o s
  ELSE <<s[1]>> \o insert_sorted(x, Tail(s))

RECURSIVE sort_pairs(_)
sort_pairs(pairs) ==
  IF pairs = <<>> THEN <<>>
  ELSE insert_sorted(pairs[Len(pairs)], sort_pairs(SubSeq(pairs, 1, Len(pairs) - 1)))

\* re.sub(r'[^\w.-]', '', s): the characters that survive
WordChars == Range(UpperCase) \cup Range(LowerCase) \cup Range(Digits) \cup {"_", ".", "-"}

SelectChars(s, keep) == SelectSeq(s, LAMBDA c : c \in keep)

SanitizeCap == 100

sanitize_filename(text) ==
  LET s1 == [i \in 1..Len(text) |-> IF text[i] = " " THEN "_" ELSE text[i]]
      s2 == SelectChars(s1, WordChars)
      s3 == SubSeq(s2, 1, IF Len(s2) < SanitizeCap THEN Len(s2) ELSE SanitizeCap)
  IN  lower(s3)

\* os.path / pathlib on a bare file name
\* Path(name).suffix: from the last dot, "" when there is none or it leads
LastDot(name) ==
  IF "." \in Range(name)
  THEN CHOOSE i \in 1..Len(name) : name[i] = "." /\ \A j \in (i+1)..Len(name) : name[j] # "."
  ELSE 0
suffix(name) == IF LastDot(name) > 1 THEN SubSeq(name, LastDot(name), Len(name)) ELSE <<>>

\* Path(name).name
basename(name) ==
  IF "/" \in Range(name)
  THEN LET i == CHOOSE i \in 1..Len(name) :
                  name[i] = "/" /\ \A j \in (i+1)..Len(name) : name[j] # "/"
       IN  SubSeq(name, i + 1, Len(name))
  ELSE name

\* str.endswith
endswith(s, p) == Len(s) >= Len(p) /\ SubSeq(s, Len(s) - Len(p) + 1, Len(s)) = p

DotZip == <<".", "z", "i", "p">>
DotNds == <<".", "n", "d", "s">>
DotDsi == <<".", "d", "s", "i">>
DotPng == <<".", "p", "n", "g">>
RomSuffixes == {DotNds, DotDsi}
CoverSuffixes == {DotPng, <<".","j","p","g">>, <<".","j","p","e","g">>, <<".","g","i","f">>, <<".","b","m","p">>}
RomsPrefix == <<"a","s","s","e","t","s","/","r","o","m","s","/">>

\* --------------------------------------------------------------- constants
ANY == <<"A","N","Y">>
EUR == <<"E","U","R">>
USA == <<"U","S","A">>
JPN == <<"J","P","N">>
CHI == <<"C","H","I">>
AUS == <<"A","U","S">>
RU == <<"R","U">>
ES == <<"E","S">>

\* region_combo.addItems([...])
region_combo_items == {ANY, EUR, USA, JPN, CHI, AUS}

\* ---------------------------------------------------- the user's ROM files
\* What the file picker can return: .nds files with a header (title, game id,
\* maker code, version byte) and size bytes of content.
RomA ==
  [filename |-> <<"z",".","n","d","s">>, title |-> <<"Z","e">>,
   game_id |-> <<"A","A","A","E">>, maker_code |-> <<"0","1">>,
   rom_version |-> 0, size |-> 512]
RomB ==
  [filename |-> <<"m",".","n","d","s">>, title |-> <<"m","a">>,
   game_id |-> <<"B","B","B","P">>, maker_code |-> <<"0","2">>,
   rom_version |-> 1, size |-> 520]
RomFiles == {RomA, RomB}
\* an empty file: header[0x1E] raises IndexError
RomEmpty ==
  [filename |-> <<"s",".","n","d","s">>, title |-> <<>>, game_id |-> <<>>, maker_code |-> <<>>,
   rom_version |-> 0, size |-> 0]
PickedFiles == RomFiles \cup {RomEmpty}
\* header = f.read(0x200); header[0x1E] raises IndexError on a shorter header
HeaderLen == 512
RomVersionAt == 30
extract_info_raises(f) == f.size <= RomVersionAt


\* ------------------------------------------------------------ NDSExtractor
game_id_region_map(c) ==
  CASE c \in {"A","B","G","K","O"} -> ANY
    [] c = "C" -> CHI
    [] c \in {"D","F","H","I","M","N","P","Q","V","W","X","Y","Z"} -> EUR
    [] c \in {"E","L","T"} -> USA
    [] c = "J" -> JPN
    [] c = "R" -> RU
    [] c = "S" -> ES
    [] c = "U" -> AUS
    [] OTHER -> ANY

\* the table looked up without .upper()
region_of_game_id_as_written(game_id) ==
  IF Len(game_id) >= 4 THEN game_id_region_map(game_id[4]) ELSE ANY

region_of_game_id(game_id) ==
  IF Len(game_id) >= 4 THEN game_id_region_map(upper_char(game_id[4])) ELSE ANY

stem(name) == IF LastDot(name) > 1 THEN SubSeq(name, 1, LastDot(name) - 1) ELSE name

extract_info(f) ==
  [title |-> IF f.title # <<>> THEN f.title ELSE stem(f.filename),
   filename |-> f.filename,
   filesize |-> f.size,
   game_id |-> f.game_id,
   maker_code |-> f.maker_code,
   rom_version |-> f.rom_version,
   region_from_rom |-> region_of_game_id(f.game_id)]

\* bytes.decode('ascii', errors='ignore'): bytes above 127 are dropped, the
\* others become chr(b) (for the ASCII bytes the model uses)
decode_ascii_ignore(bs) ==
  LET chr(b) ==
        CASE b = 0 -> Nul
          [] b = 32 -> " "
          [] b = 45 -> "-"
          [] b = 46 -> "."
          [] b = 47 -> "/"
          [] b \in 48..57 -> Digits[b - 47]
          [] b = 58 -> ":"
          [] b \in 65..90 -> UpperCase[b - 64]
          [] b = 95 -> "_"
          [] b \in 97..122 -> LowerCase[b - 96]
      kept == SelectSeq(bs, LAMBDA b : b < 128)
  IN  [i \in 1..Len(kept) |-> chr(kept[i])]

\* str.strip('\x00'): leading and trailing NULs only
strip_nul(s) ==
  LET keep == {i \in 1..Len(s) : s[i] # Nul}
  IN  IF keep = {} THEN <<>>
      ELSE SubSeq(s, CHOOSE i \in keep : \A j \in keep : i <= j,
                     CHOOSE i \in keep : \A j \in keep : i >= j)

\* the fields extract_info reads from the first 0x200 bytes of a file;
\* header[0x1E] is read only when it is there (extract_info_raises otherwise)
read_header(file) ==
  LET \* bs[a:b]
      slice(bs, a, b) == SubSeq(bs, a + 1, IF b < Len(bs) THEN b ELSE Len(bs))
      header == slice(file.data, 0, HeaderLen)
  IN  [filename |-> file.name,
       title |-> strip_nul(decode_ascii_ignore(slice(header, 0, 12))),
       game_id |-> strip_nul(decode_ascii_ignore(slice(header, 12, 16))),
       maker_code |-> strip_nul(decode_ascii_ignore(slice(header, 18, 20))),
       rom_version |-> IF Len(header) > RomVersionAt THEN header[RomVersionAt + 1] ELSE 0,
       size |-> Len(file.data)]

\* ---------------------------------------------------------------- RomVersion
RomVersionFields ==
  {"id", "region", "version", "download_url", "filename", "internal_rom_filename",
   "filesize", "icon_url", "game_id", "extracted_region_from_rom", "internal_file_id"}

\* str(uuid.uuid4()): the n-th value drawn
uuid4(n) == str_of_int(n)

IdPrefixLen == 8
prefix(s, n) == SubSeq(s, 1, IF Len(s) < n THEN Len(s) ELSE n)

\* __post_init__ that derives the key again whatever is stored
post_init_always(rv) ==
  [rv EXCEPT !.internal_file_id =
     sanitize_filename(rv.game_id \o <<"_">> \o rv.region \o <<"_">> \o prefix(rv.id, IdPrefixLen))]

post_init_without_id(rv) ==
  IF rv.internal_file_id = <<>>
  THEN [rv EXCEPT !.internal_file_id =
          sanitize_filename(rv.game_id \o <<"_">> \o rv.region \o <<"_">>)]
  ELSE rv

post_init(rv) ==
  IF rv.internal_file_id = <<>>
  THEN [rv EXCEPT !.internal_file_id =
          sanitize_filename(rv.game_id \o <<"_">> \o rv.region \o <<"_">> \o prefix(rv.id, IdPrefixLen))]
  ELSE rv

\* the dataclass defaults
RomVersionDefaults ==
  [id |-> <<>>, region |-> ANY, version |-> <<>>, download_url |-> <<>>, filename |-> <<>>,
   internal_rom_filename |-> <<>>, filesize |-> <<"0">>, icon_url |-> <<>>, game_id |-> <<>>,
   extracted_region_from_rom |-> ANY, internal_file_id |-> <<>>]

\* RomVersion(**kw): keyword arguments over the defaults, then __post_init__
RomVersion(kw) ==
  post_init([k \in RomVersionFields |-> IF k \in DOMAIN kw THEN kw[k] ELSE RomVersionDefaults[k]])

RomVersion_to_dict(rv) == [k \in RomVersionFields |-> rv[k]]

RomVersion_from_dict_new_id(data) ==
  RomVersion([k \in ((DOMAIN data) \cup {"internal_rom_filename"}) \ {"id"} |->
                IF k \in DOMAIN data THEN data[k] ELSE <<>>])

RomVersion_from_dict(data) ==
  RomVersion([k \in (DOMAIN data) \cup {"internal_rom_filename"} |->
                IF k \in DOMAIN data THEN data[k] ELSE <<>>])

\* ----------------------------------------------------------------- GameEntry
GameEntryFields == {"id", "name", "creator", "platform", "game_id", "rom_versions"}
Nds == <<"n","d","s">>
GameEntryDefaults ==
  [id |-> <<>>, name |-> <<>>, creator |-> <<>>, platform |-> Nds, game_id |-> <<>>,
   rom_versions |-> <<>>]

GameEntry(kw) ==
  [k \in GameEntryFields |-> IF k \in DOMAIN kw THEN kw[k] ELSE GameEntryDefaults[k]]

GameEntry_to_dict(ge) ==
  [k \in GameEntryFields |->
     IF k = "rom_versions"
     THEN [i \in 1..Len(ge.rom_versions) |-> RomVersion_to_dict(ge.rom_versions[i])]
     ELSE ge[k]]

GameEntry_from_dict(data) ==
  LET rom_versions_data == IF "rom_versions" \in DOMAIN data THEN data.rom_versions ELSE <<>>
      rest == [k \in (DOMAIN data) \ {"rom_versions"} |-> data[k]]
  IN  [GameEntry(rest) EXCEPT !.rom_versions =
         [i \in 1..Len(rom_versions_data) |-> RomVersion_from_dict(rom_versions_data[i])]]

\* ------------------------------------------------------------- FileManager
\* A directory is a function from file names to files.  A file in assets/roms
\* is a zip archive (whole, holding the entry inner of size bytes, or left
\* behind by a failed write) or a bare ROM of size bytes.
zip_file(inner, size) == [zip |-> TRUE, inner |-> inner, size |-> size, whole |-> TRUE]
partial_zip == [zip |-> TRUE, inner |-> <<>>, size |-> 0, whole |-> FALSE]
bare_rom(size) == [zip |-> FALSE, inner |-> <<>>, size |-> size, whole |-> TRUE]

put(dir, name, file) == [n \in (DOMAIN dir) \cup {name} |-> IF n = name THEN file ELSE dir[n]]
unlink(dir, names) == [n \in (DOMAIN dir) \ names |-> dir[n]]
exists(dir, name) == name \in DOMAIN dir

\* os.path.getsize of a file in assets/roms
getsize(file) == IF file.zip THEN (IF file.whole THEN file.size + 1 ELSE 0) ELSE file.size

\* what zipfile can do to a pack: succeed, fail to open the destination, or
\* fail while writing (the destination is already created and truncated)
PackOutcomes == {"ok", "open_error", "write_error"}

\* returns the directory afterwards, whether it raised, and the two results
copy_and_zip_rom_file_swallows(dir, src_name, src_size, file_identifier, io) ==
  LET zip_filename == file_identifier \o DotZip
  IN  CASE io = "ok" ->
             [roms |-> put(dir, zip_filename, zip_file(src_name, src_size)), raised |-> FALSE,
              rom_relative_path |-> RomsPrefix \o zip_filename, zip_filename |-> zip_filename]
        [] io = "open_error" ->
             [roms |-> dir, raised |-> TRUE,
              rom_relative_path |-> <<>>, zip_filename |-> <<>>]
        [] OTHER ->
             [roms |-> put(dir, zip_filename, partial_zip), raised |-> FALSE,
              rom_relative_path |-> RomsPrefix \o zip_filename, zip_filename |-> zip_filename]

copy_and_zip_rom_file(dir, src_name, src_size, file_identifier, io) ==
  LET zip_filename == file_identifier \o DotZip
  IN  CASE io = "ok" ->
             [roms |-> put(dir, zip_filename, zip_file(src_name, src_size)), raised |-> FALSE,
              rom_relative_path |-> RomsPrefix \o zip_filename, zip_filename |-> zip_filename]
        [] io = "open_error" ->
             [roms |-> dir, raised |-> TRUE,
              rom_relative_path |-> <<>>, zip_filename |-> <<>>]
        [] OTHER ->
             [roms |-> put(dir, zip_filename, partial_zip), raised |-> TRUE,
              rom_relative_path |-> <<>>, zip_filename |-> <<>>]

\* PIL can fail on the image: the cover is then not stored and "" returned
CoverOutcomes == {"ok", "image_error"}

copy_local_cover_file_names_anyway(dir, cover_path_exists, file_identifier, io) ==
  IF ~cover_path_exists THEN [covers |-> dir, filename |-> <<>>]
  ELSE IF io = "ok"
  THEN [covers |-> dir \cup {file_identifier \o DotPng}, filename |-> file_identifier \o DotPng]
  ELSE [covers |-> dir, filename |-> file_identifier \o DotPng]

copy_local_cover_file(dir, cover_path_exists, file_identifier, io) ==
  IF ~cover_path_exists THEN [covers |-> dir, filename |-> <<>>]
  ELSE IF io = "ok"
  THEN [covers |-> dir \cup {file_identifier \o DotPng}, filename |-> file_identifier \o DotPng]
  ELSE [covers |-> dir, filename |-> <<>>]

\* glob(f"{file_identifier}.*")
glob_matches(name, file_identifier) == startswith(name, file_identifier \o <<".">>)

remove_local_cover_file(dir, file_identifier) ==
  dir \ {n \in dir : glob_matches(n, file_identifier) /\ lower(suffix(n)) \in CoverSuffixes}

remove_rom_file(dir, file_identifier) ==
  LET d1 == unlink(dir, {file_identifier \o DotZip})
  IN  unlink(d1, {n \in DOMAIN d1 :
                    glob_matches(n, file_identifier) /\ lower(suffix(n)) \in RomSuffixes})

\* the name of the extracted ROM, or <<>> for None (not a zip archive, a
\* damaged one, or one without a .nds/.dsi entry)
unpack_zip_rom(file) ==
  IF file.zip /\ file.whole /\ lower(suffix(file.inner)) \in RomSuffixes
  THEN file.inner
  ELSE <<>>

\* ------------------------------------------------ archives, byte by byte
\* A ROM file is [name, data]; a zip archive is [name, entries], its entries
\* in central-directory order, each [name, data] with data deflated.
\* ZIP_DEFLATED, as run lengths: <<byte, count>> for each run of equal bytes
RECURSIVE deflate(_)
deflate(bs) ==
  IF bs = <<>> THEN <<>>
  ELSE LET others == {i \in 1..Len(bs) : bs[i] # bs[1]}
           n == IF others = {} THEN Len(bs)
                ELSE (CHOOSE i \in others : \A j \in others : i <= j) - 1
       IN  <<(<<bs[1], n>>)>> \o deflate(SubSeq(bs, n + 1, Len(bs)))

RECURSIVE inflate(_)
inflate(runs) ==
  IF runs = <<>> THEN <<>>
  ELSE [i \in 1..runs[1][2] |-> runs[1][1]] \o inflate(Tail(runs))

\* ZipFile(zip_dest, 'a') instead of 'w': the entry is added to what is there
ZipFile_w_write_appending(dir, zip_filename, nds_file) ==
  put(dir, zip_filename,
      (IF exists(dir, zip_filename) THEN dir[zip_filename] ELSE <<>>)
        \o <<[name |-> basename(nds_file.name), data |-> deflate(nds_file.data)]>>)

\* zf.write(nds_path) without the base name: the entry is named by the path
ZipFile_w_write_full_path(dir, zip_filename, nds_file) ==
  put(dir, zip_filename, <<[name |-> nds_file.name, data |-> deflate(nds_file.data)]>>)

\* with ZipFile(zip_dest, 'w', ZIP_DEFLATED) as zf: zf.write(nds_path, basename)
ZipFile_w_write(dir, zip_filename, nds_file) ==
  put(dir, zip_filename,
      <<[name |-> basename(nds_file.name), data |-> deflate(nds_file.data)]>>)

is_rom_name(name) == endswith(lower(name), DotNds) \/ endswith(lower(name), DotDsi)

\* the loop of unpack_zip_rom over nds_files_in_zip[k..]; st is the
\* extraction directory, largest_rom_size and largest_rom_path so far.
\* getsize of a path extract did not write raises: None is returned.
RECURSIVE unpack_loop(_, _, _)
unpack_loop(nds_files_in_zip, k, st) ==
  IF k > Len(nds_files_in_zip) THEN [dir |-> st.dir, path |-> st.largest_rom_path]
  ELSE LET file_in_zip == nds_files_in_zip[k]
           extracted_file_path == basename(file_in_zip.name)
           dir1 == put(st.dir, file_in_zip.name, inflate(file_in_zip.data))
       IN  IF ~exists(dir1, extracted_file_path) THEN [dir |-> dir1, path |-> <<>>]
           ELSE IF Len(dir1[extracted_file_path]) > st.largest_rom_size
           THEN unpack_loop(nds_files_in_zip, k + 1,
                  [dir |-> dir1, largest_rom_size |-> Len(dir1[extracted_file_path]),
                   largest_rom_path |-> extracted_file_path])
           ELSE unpack_loop(nds_files_in_zip, k + 1,
                  [st EXCEPT !.dir = unlink(dir1, {extracted_file_path})])

\* unpack_zip_rom on a picked file: the extraction directory afterwards and
\* the path returned, <<>> for None
unpack_zip_rom_bytes(file) ==
  IF "entries" \notin DOMAIN file THEN [dir |-> <<>>, path |-> <<>>]
  ELSE LET nds_files_in_zip == SelectSeq(file.entries, LAMBDA e : is_rom_name(e.name))
       IN  IF nds_files_in_zip = <<>> THEN [dir |-> <<>>, path |-> <<>>]
           ELSE unpack_loop(nds_files_in_zip, 1,
                  [dir |-> <<>>, largest_rom_size |-> -1, largest_rom_path |-> <<>>])

\* --------------------------------------------------------------------- state
VARIABLES
  entries,            \* NDSDatabaseManager.entries: the list of GameEntry
  roms_dir,           \* assets/roms
  covers_dir,         \* assets/covers: the names of the files in it
  database_json,      \* database.json: the list of game dicts last written
  next_uuid,          \* how many uuid4() values have been drawn, plus one
  current_game,       \* rom_list.currentItem(): a GameEntry id, <<>> for none
  related_roms,       \* related_roms_list: the RomVersion ids of its items
  wpc,                \* where CompressionWorker.run is
  roms_to_compress,   \* CompressionWorker.roms_to_compress
  widx,               \* position of run's for loop in roms_to_compress
  processed_count,    \* run's local processed_count
  signals,            \* progress_updated / compression_finished emitted by the run
  compress_all_enabled, \* compress_all_button.isEnabled()
  edits,              \* edit dialogs accepted so far
  current_nds_path,   \* the file current_nds_path names: its name and bytes, NoFile for None
  temp_zip_extraction_dir, \* the files in the extraction directory, by name
  self_nds_info,      \* self.nds_info: what the last load_nds_file read, NoInfo for None
  initial_region,     \* what region_combo of AddRegionalRomDialog shows
  zip_dest            \* the archives written under assets/roms, byte by byte, by name

vars ==
  <<entries, roms_dir, covers_dir, database_json, next_uuid, current_game, related_roms,
    wpc, roms_to_compress, widx, processed_count, signals, compress_all_enabled,
    edits, current_nds_path, temp_zip_extraction_dir, self_nds_info, initial_region,
    zip_dest>>

worker_vars == <<wpc, roms_to_compress, widx, processed_count, signals>>
pick_vars == <<current_nds_path, temp_zip_extraction_dir, self_nds_info, initial_region, zip_dest>>

\* nothing picked yet
NoFile == [name |-> <<>>, data |-> <<>>]
NoInfo == [title |-> <<>>]
nothing_picked ==
  /\ current_nds_path = NoFile
  /\ temp_zip_extraction_dir = <<>>
  /\ self_nds_info = NoInfo
  /\ initial_region = ANY
  /\ zip_dest = <<>>

\* ------------------------------------------------------- catalog helpers
SeqRange(s) == {s[i] : i \in 1..Len(s)}

all_rom_versions_of(es) == UNION {SeqRange(es[i].rom_versions) : i \in 1..Len(es)}
all_rom_versions == all_rom_versions_of(entries)

\* entry.to_dict() for every entry, as json.dump writes and json.load reads it
save_database(es) == [i \in 1..Len(es) |-> GameEntry_to_dict(es[i])]

\* self.entries.sort(key=lambda x: x.name.lower())
refresh_rom_list(es) ==
  LET sorted == sort_pairs([i \in 1..Len(es) |-> <<lower(es[i].name), es[i]>>])
  IN  [i \in 1..Len(sorted) |-> sorted[i][2]]

\* rom_versions.sort(key=lambda x: x.region) of one entry
sort_rom_versions(rvs) ==
  LET sorted == sort_pairs([i \in 1..Len(rvs) |-> <<rvs[i].region, rvs[i]>>])
  IN  [i \in 1..Len(sorted) |-> sorted[i][2]]

\* a lookup that never finds the entry
find_no_entry(es, game_id) == 0

\* a lookup that takes the first entry, whatever its game id
find_first_entry(es, game_id) == IF es = <<>> THEN 0 ELSE 1

\* next((ge for ge in self.entries if ge.game_id == game_id), None): its index, 0 for None
find_entry_by_game_id(es, game_id) ==
  IF \E i \in 1..Len(es) : es[i].game_id = game_id
  THEN CHOOSE i \in 1..Len(es) :
         es[i].game_id = game_id /\ \A j \in 1..(i-1) : es[j].game_id # game_id
  ELSE 0

find_entry_by_id(es, id) ==
  IF \E i \in 1..Len(es) : es[i].id = id
  THEN CHOOSE i \in 1..Len(es) : es[i].id = id /\ \A j \in 1..(i-1) : es[j].id # id
  ELSE 0

Http == <<"h","t","t","p">>
\* the URL search_gametdb_cover leaves in current_cover_path
gametdb_url(game_id) == Http \o <<"s",":","/","/">> \o game_id \o DotPng

\* --------------------------------------------------------- load_database
\* the backfill of internal_rom_filename for one loaded RomVersion
backfill_always(rv, dir) ==
  IF exists(dir, rv.filename) /\ lower(suffix(rv.filename)) = DotZip
  THEN IF unpack_zip_rom(dir[rv.filename]) # <<>>
       THEN [rv EXCEPT !.internal_rom_filename = unpack_zip_rom(dir[rv.filename])]
       ELSE rv
  ELSE IF exists(dir, rv.filename) /\ lower(suffix(rv.filename)) \in RomSuffixes
  THEN [rv EXCEPT !.internal_rom_filename = rv.filename]
  ELSE rv

backfill(rv, dir) ==
  IF rv.internal_rom_filename # <<>> THEN rv
  ELSE IF exists(dir, rv.filename) /\ lower(suffix(rv.filename)) = DotZip
  THEN IF unpack_zip_rom(dir[rv.filename]) # <<>>
       THEN [rv EXCEPT !.internal_rom_filename = unpack_zip_rom(dir[rv.filename])]
       ELSE rv
  ELSE IF exists(dir, rv.filename) /\ lower(suffix(rv.filename)) \in RomSuffixes
  THEN [rv EXCEPT !.internal_rom_filename = rv.filename]
  ELSE rv

\* What json.load and from_dict can meet in database.json.  A file that is
\* not JSON is a sequence of lines, each [flat |-> its tab-separated fields];
\* a JSON value that is not a string (null, a number) is JsonNull.
JsonNull == <<"null">>
\* json.load returns (no JSONDecodeError)
json_decodes(db) == \A i \in 1..Len(db) : "flat" \notin DOMAIN db[i]
\* cls(**data) raises TypeError on a keyword that is not a field
from_dict_raises(db) ==
  \E i \in 1..Len(db) :
    \/ ~((DOMAIN db[i]) \subseteq GameEntryFields)
    \/ /\ "rom_versions" \in DOMAIN db[i]
       /\ \E j \in 1..Len(db[i].rom_versions) :
            ~((DOMAIN db[i].rom_versions[j]) \subseteq RomVersionFields)
\* self.file_manager.roms_dir / rom_version.filename raises TypeError
backfill_raises(rv) == rv.internal_rom_filename = <<>> /\ rv.filename = JsonNull

\* entries and database.json after load_database has read db; self.entries is
\* [] when it is called.  An exception anywhere in the try block is caught and
\* database.json is then written anew as []: entries are what the block had
\* made of them by then.
load_database(db, dir) ==
  IF ~json_decodes(db) \/ from_dict_raises(db)
  THEN [entries |-> <<>>, database_json |-> <<>>]
  ELSE
  LET loaded == [i \in 1..Len(db) |-> GameEntry_from_dict(db[i])]
      \* the loop reaches variant j of entry i only if none before it raised
      reached(i, j) ==
        \A h \in 1..i : \A g \in 1..Len(loaded[h].rom_versions) :
          (h < i \/ g < j) => ~backfill_raises(loaded[h].rom_versions[g])
      filled == [i \in 1..Len(loaded) |->
                   [loaded[i] EXCEPT !.rom_versions =
                      [j \in 1..Len(loaded[i].rom_versions) |->
                         IF reached(i, j) /\ ~backfill_raises(loaded[i].rom_versions[j])
                         THEN backfill(loaded[i].rom_versions[j], dir)
                         ELSE loaded[i].rom_versions[j]]]]
      database_modified == filled # loaded
  IN  IF \E rv \in all_rom_versions_of(loaded) : backfill_raises(rv)
      THEN [entries |-> filled, database_json |-> <<>>]
      ELSE [entries |-> refresh_rom_list(filled),
            database_json |-> IF database_modified THEN save_database(filled) ELSE db]

\* ------------------------------------------- the database found at start-up
\* A database written before ROMs were packed: variant i names a bare file in
\* assets/roms and has neither internal_rom_filename nor internal_file_id.
LegacyNames == {<<"o",".","n","d","s">>, <<"p",".","n","d","s">>}
LegacyGameId(i) == IF i % 2 = 1 THEN <<"A","A","A","E">> ELSE <<"C","C","C","J">>
LegacyTitle(g) == IF g = <<"A","A","A","E">> THEN <<"Z","e">> ELSE <<"k","a">>

legacy_rom_dict(i, fname) ==
  [id |-> <<"f">> \o str_of_int(i), region |-> region_of_game_id(LegacyGameId(i)),
   version |-> <<"0">>, download_url |-> RomsPrefix \o fname, filename |-> fname,
   filesize |-> str_of_int(4), icon_url |-> <<>>, game_id |-> LegacyGameId(i),
   extracted_region_from_rom |-> region_of_game_id(LegacyGameId(i))]

legacy_game_dict(g, k, nm) ==
  [id |-> <<"e">> \o g, name |-> LegacyTitle(g), creator |-> <<"0","1">>, platform |-> Nds,
   game_id |-> g,
   rom_versions |-> SelectSeq([i \in 1..k |-> legacy_rom_dict(i, nm[i])],
                              LAMBDA d : d.game_id = g)]

legacy_database(k, nm) ==
  SelectSeq(<<legacy_game_dict(LegacyGameId(1), k, nm), legacy_game_dict(LegacyGameId(2), k, nm)>>,
            LAMBDA d : d.rom_versions # <<>>)

\* the program has started on the database of k legacy variants named by nm,
\* with the bare files disk in assets/roms
started(k, nm, disk) ==
    LET dir == [n \in disk |-> bare_rom(4)]
        ld == load_database(legacy_database(k, nm), dir)
    IN  /\ entries = ld.entries
        /\ database_json = ld.database_json
        /\ roms_dir = dir
        /\ covers_dir = {}
        /\ next_uuid = 1
        /\ current_game = <<>>
        /\ related_roms = <<>>
        /\ wpc = "idle"
        /\ roms_to_compress = <<>>
        /\ widx = 0
        /\ processed_count = 0
        /\ signals = <<>>
        /\ compress_all_enabled = TRUE
        /\ edits = 0
        /\ nothing_picked

\* ---------------------------------------------------------- what the user does
\* what the cover widget holds when a handler reads current_cover_path: nothing,
\* a GameTDB URL, or the path of a local image
AddCovers == {"none", "local"}
EditCovers == {"none", "remote", "local"}
\* the regions and versions the user leaves in the edit dialog
EditRegions == {EUR, USA}
EditVersions == {<<"9">>}

\* region_combo after load_nds_file: the header's region if it is an item
preseed(region) == IF region \in region_combo_items THEN region ELSE ANY

\* an update that leaves filesize as it was
set_archive_fields_partial(rv, rom_relative_path, zip_filename, dir) ==
  [rv EXCEPT !.download_url = rom_relative_path, !.filename = zip_filename]

\* the lines that set the three archive fields after a pack
set_archive_fields(rv, rom_relative_path, zip_filename, dir) ==
  [rv EXCEPT !.download_url = rom_relative_path,
             !.filename = zip_filename,
             !.filesize = str_of_int(getsize(dir[zip_filename]))]

\* current_cover_path to icon_url, as both add paths do it
cover_to_save(cover, game_id, file_identifier, cover_io) ==
  CASE cover = "none" -> [covers |-> covers_dir, filename |-> <<>>]
    [] cover = "remote" -> [covers |-> covers_dir, filename |-> gametdb_url(game_id)]
    [] OTHER -> copy_local_cover_file(covers_dir, TRUE, file_identifier, cover_io)

\* on_game_selected on the entry at index i: its variants sorted by region
select_game(es, i) == [es EXCEPT ![i].rom_versions = sort_rom_versions(@)]
ids_of(rvs) == [j \in 1..Len(rvs) |-> rvs[j].id]

\* str.strip()
Whitespace == {" ", "\t", "\n", "\r"}
RECURSIVE lstrip(_)
lstrip(s) == IF s # <<>> /\ Head(s) \in Whitespace THEN lstrip(Tail(s)) ELSE s
RECURSIVE rstrip(_)
rstrip(s) ==
  IF s # <<>> /\ s[Len(s)] \in Whitespace THEN rstrip(SubSeq(s, 1, Len(s) - 1)) ELSE s
strip(s) == rstrip(lstrip(s))

\* add_to_database (Aggiungi ROM tab) for the loaded file f
add_to_database(f, cover, pack_io, cover_io) ==
  LET nds_info == extract_info(f)
      game_id_text == strip(nds_info.game_id) \* game_id_edit as load_nds_file filled it
      version_text == strip(str_of_int(nds_info.rom_version))    \* version_edit, likewise
      name_text == strip(nds_info.title)      \* name_edit as load_nds_file filled it
      new0 == RomVersion(
                [id |-> uuid4(next_uuid), region |-> preseed(nds_info.region_from_rom),
                 version |-> IF version_text # <<>> THEN version_text
                             ELSE str_of_int(nds_info.rom_version),
                 game_id |-> IF game_id_text # <<>> THEN game_id_text ELSE nds_info.game_id,
                 extracted_region_from_rom |-> nds_info.region_from_rom,
                 internal_rom_filename |-> f.filename])
      packed == copy_and_zip_rom_file(roms_dir, f.filename, f.size, new0.internal_file_id, pack_io)
      new1 == set_archive_fields(new0, packed.rom_relative_path, packed.zip_filename, packed.roms)
      cov == cover_to_save(cover, game_id_text, new0.internal_file_id, cover_io)
      new2 == [new1 EXCEPT !.icon_url = cov.filename]
      existing == find_entry_by_game_id(entries, new2.game_id)
      es == IF existing # 0
            THEN [entries EXCEPT ![existing].rom_versions = Append(@, new2)]
            ELSE Append(entries,
                        GameEntry([id |-> uuid4(next_uuid + 1),
                                   name |-> IF name_text # <<>> THEN name_text ELSE nds_info.title,
                                   creator |-> nds_info.maker_code,
                                   platform |-> Nds,
                                   game_id |-> new2.game_id,
                                   rom_versions |-> <<new2>>]))
  IN  /\ next_uuid <= MaxUuid
      /\ IF extract_info_raises(f)
         THEN UNCHANGED vars \* load_nds_file warns and leaves add_button disabled
         ELSE IF packed.raised
         THEN /\ roms_dir' = packed.roms
              /\ next_uuid' = next_uuid + 1
              /\ UNCHANGED <<entries, covers_dir, database_json, current_game, related_roms,
                             worker_vars, compress_all_enabled, edits, pick_vars>>
         ELSE /\ roms_dir' = packed.roms
              /\ covers_dir' = cov.covers
              /\ entries' = refresh_rom_list(es)
              /\ database_json' = save_database(refresh_rom_list(es))
              /\ next_uuid' = next_uuid + (IF existing = 0 THEN 2 ELSE 1)
              /\ current_game' = <<>>
              /\ UNCHANGED <<related_roms, worker_vars, compress_all_enabled, edits, pick_vars>>

\* the program starts (again): __init__ runs load_database
start_program ==
  LET ld == load_database(database_json, roms_dir)
  IN  /\ entries' = ld.entries
      /\ database_json' = ld.database_json
      /\ current_game' = <<>>
      /\ related_roms' = <<>>
      /\ compress_all_enabled' = TRUE
      /\ wpc' = "idle"
      /\ roms_to_compress' = <<>>
      /\ widx' = 0
      /\ processed_count' = 0
      /\ signals' = <<>>

\* add_new_regional_rom with AddRegionalRomDialog accepted for the file f; the
\* selected entry is the one rom_list's current item names
add_new_regional_rom(f, cover, pack_io, cover_io) ==
  LET sel == find_entry_by_id(entries, current_game)
      nds_info == extract_info(f)
      new0 == RomVersion(
                [id |-> uuid4(next_uuid), region |-> preseed(nds_info.region_from_rom),
                 version |-> str_of_int(nds_info.rom_version),
                 game_id |-> nds_info.game_id,
                 extracted_region_from_rom |-> nds_info.region_from_rom,
                 internal_rom_filename |-> f.filename])
      packed == copy_and_zip_rom_file(roms_dir, f.filename, f.size, new0.internal_file_id, pack_io)
      new1 == set_archive_fields(new0, packed.rom_relative_path, packed.zip_filename, packed.roms)
      cov == cover_to_save(cover, nds_info.game_id, new0.internal_file_id, cover_io)
      new2 == [new1 EXCEPT !.icon_url = cov.filename]
      es == refresh_rom_list([entries EXCEPT ![sel].rom_versions = Append(@, new2)])
      again == find_entry_by_id(es, current_game)
  IN  /\ current_game # <<>>
      /\ sel # 0
      /\ next_uuid <= MaxUuid
      /\ IF extract_info_raises(f)
         THEN UNCHANGED vars \* load_nds_file warns and leaves ok_button disabled
         ELSE IF packed.raised
         THEN \* accept_entry catches nothing: the exception ends the program
              /\ next_uuid' = next_uuid + 1
              /\ roms_dir' = packed.roms
              /\ start_program
              /\ UNCHANGED <<covers_dir, edits, pick_vars>>
         ELSE /\ next_uuid' = next_uuid + 1
              /\ roms_dir' = packed.roms
              /\ covers_dir' = cov.covers
              /\ database_json' = save_database(es)
              /\ entries' = select_game(es, again)
              /\ current_game' = current_game
              /\ related_roms' = ids_of(sort_rom_versions(es[again].rom_versions))
              /\ UNCHANGED <<worker_vars, compress_all_enabled, edits, pick_vars>>

\* EditDialog.get_updated_rom_version: the dialog writes into the RomVersion
\* it was given
get_updated_rom_version(rv, region, version, cover_path) ==
  [rv EXCEPT !.region = region, !.version = version, !.icon_url = cover_path]

\* a local image file the user picked, somewhere outside assets/
LocalImage == <<"c", ".", "j", "p", "g">>

replace_rom_version(es, rv) ==
  [i \in 1..Len(es) |->
     [es[i] EXCEPT !.rom_versions =
        [j \in 1..Len(es[i].rom_versions) |->
           IF es[i].rom_versions[j].id = rv.id THEN rv ELSE es[i].rom_versions[j]]]]

\* the index of the entry holding the RomVersion id, 0 for none
parent_of(es, id) ==
  IF \E i \in 1..Len(es) : id \in SeqRange(ids_of(es[i].rom_versions))
  THEN CHOOSE i \in 1..Len(es) :
         /\ id \in SeqRange(ids_of(es[i].rom_versions))
         /\ \A h \in 1..(i-1) : id \notin SeqRange(ids_of(es[h].rom_versions))
  ELSE 0

rom_version_by_id(es, id) ==
  CHOOSE rv \in all_rom_versions_of(es) : rv.id = id

\* edit_selected_regional_rom with the dialog accepted; id is the current item
\* of related_roms_list
edit_selected_regional_rom(id, region, version, cover, cover_io) ==
  LET p == parent_of(entries, id)
      cover_path == CASE cover = "none" -> <<>>
                      [] cover = "remote" -> gametdb_url(rom_version_by_id(entries, id).game_id)
                      [] OTHER -> LocalImage
      \* updated_rom_version and rom_version_to_edit are the same object
      updated0 == get_updated_rom_version(rom_version_by_id(entries, id), region, version, cover_path)
      is_local == updated0.icon_url # <<>> /\ ~startswith(updated0.icon_url, Http)
      copied == copy_local_cover_file(covers_dir, TRUE, updated0.internal_file_id, cover_io)
      updated_rom_version == IF is_local THEN [updated0 EXCEPT !.icon_url = copied.filename]
                             ELSE updated0
      covers1 == IF is_local THEN copied.covers ELSE covers_dir
      rom_version_to_edit == updated_rom_version
      old_was_local_new_is_not ==
        /\ rom_version_to_edit.icon_url # <<>> /\ ~startswith(rom_version_to_edit.icon_url, Http)
        /\ (startswith(updated_rom_version.icon_url, Http) \/ updated_rom_version.icon_url = <<>>)
      es == replace_rom_version(entries, updated_rom_version)
  IN  /\ id \in SeqRange(related_roms)
      /\ p # 0
      /\ edits < MaxEdits
      /\ edits' = edits + 1
      /\ covers_dir' = IF old_was_local_new_is_not
                       THEN remove_local_cover_file(covers1, rom_version_to_edit.internal_file_id)
                       ELSE covers1
      /\ database_json' = save_database(es)
      /\ entries' = select_game(es, p)
      /\ current_game' = es[p].id
      /\ related_roms' = ids_of(sort_rom_versions(es[p].rom_versions))
      /\ UNCHANGED <<roms_dir, next_uuid, worker_vars, compress_all_enabled, pick_vars>>

\* list.remove(x): without the first element equal to x
remove_first(seq, x) ==
  IF \E i \in 1..Len(seq) : seq[i] = x
  THEN LET i == CHOOSE i \in 1..Len(seq) : seq[i] = x /\ \A j \in 1..(i-1) : seq[j] # x
       IN  SubSeq(seq, 1, i - 1) \o SubSeq(seq, i + 1, Len(seq))
  ELSE seq

\* remove_rom_file / remove_local_cover_file for every RomVersion of a list
RECURSIVE remove_rom_files(_, _)
remove_rom_files(dir, rvs) ==
  IF rvs = <<>> THEN dir
  ELSE remove_rom_files(remove_rom_file(dir, rvs[1].internal_file_id), Tail(rvs))

RECURSIVE remove_cover_files(_, _)
remove_cover_files(dir, rvs) ==
  IF rvs = <<>> THEN dir
  ELSE remove_cover_files(remove_local_cover_file(dir, rvs[1].internal_file_id), Tail(rvs))

\* delete_selected_game, confirmed
delete_selected_game ==
  LET g == find_entry_by_id(entries, current_game)
      es == refresh_rom_list(remove_first(entries, entries[g]))
  IN  /\ current_game # <<>>
      /\ g # 0
      /\ roms_dir' = remove_rom_files(roms_dir, entries[g].rom_versions)
      /\ covers_dir' = remove_cover_files(covers_dir, entries[g].rom_versions)
      /\ entries' = es
      /\ current_game' = <<>>
      /\ related_roms' = <<>>
      /\ database_json' = save_database(es)
      /\ UNCHANGED <<next_uuid, worker_vars, compress_all_enabled, edits, pick_vars>>

\* an emptied entry that is kept
keep_empty_entry(es, p) == es

\* if not parent_game_entry.rom_versions: self.entries.remove(parent_game_entry)
remove_empty_entry(es, p) ==
  IF es[p].rom_versions = <<>> THEN remove_first(es, es[p]) ELSE es

\* delete_selected_regional_rom, confirmed; id is the current item of related_roms_list
delete_selected_regional_rom(id) ==
  LET p == parent_of(entries, id)
      rom_version_to_delete == rom_version_by_id(entries, id)
      remaining == remove_first(entries[p].rom_versions, rom_version_to_delete)
      es1 == [entries EXCEPT ![p].rom_versions = remaining]
      es2 == refresh_rom_list(remove_empty_entry(es1, p))
      shown == find_entry_by_id(es2, entries[p].id)
  IN  /\ id \in SeqRange(related_roms)
      /\ p # 0
      /\ roms_dir' = remove_rom_file(roms_dir, rom_version_to_delete.internal_file_id)
      /\ covers_dir' = remove_local_cover_file(covers_dir, rom_version_to_delete.internal_file_id)
      /\ database_json' = save_database(es2)
      /\ IF remaining # <<>>
         THEN /\ entries' = select_game(es2, shown)
              /\ current_game' = entries[p].id
              /\ related_roms' = ids_of(sort_rom_versions(es2[shown].rom_versions))
         ELSE /\ entries' = es2
              /\ current_game' = <<>>
              /\ related_roms' = <<>>
      /\ UNCHANGED <<next_uuid, worker_vars, compress_all_enabled, edits, pick_vars>>

\* the user clicks the item of the entry at index i in rom_list
on_game_selected(i) ==
  /\ i \in 1..Len(entries)
  /\ entries' = select_game(entries, i)
  /\ current_game' = entries[i].id
  /\ related_roms' = ids_of(sort_rom_versions(entries[i].rom_versions))
  /\ UNCHANGED <<roms_dir, covers_dir, database_json, next_uuid, worker_vars,
                 compress_all_enabled, edits, pick_vars>>

\* the Aggiorna button: refresh_rom_list
refresh_clicked ==
  /\ entries' = refresh_rom_list(entries)
  /\ current_game' = <<>>
  /\ UNCHANGED <<roms_dir, covers_dir, database_json, next_uuid, related_roms, worker_vars,
                 compress_all_enabled, edits, pick_vars>>

\* the Salva button: save_database
save_clicked ==
  /\ database_json' = save_database(entries)
  /\ UNCHANGED <<entries, roms_dir, covers_dir, next_uuid, current_game, related_roms,
                 worker_vars, compress_all_enabled, edits, pick_vars>>

\* recompress_selected_rom, confirmed; id is the current item of related_roms_list
recompress_selected_rom(id, pack_io) ==
  LET rv == rom_version_by_id(entries, id)
      extracted == unpack_zip_rom(roms_dir[rv.filename])
      removed == remove_rom_file(roms_dir, rv.internal_file_id)
      packed == copy_and_zip_rom_file(removed, extracted, roms_dir[rv.filename].size,
                                      rv.internal_file_id, pack_io)
      es == replace_rom_version(
              entries,
              set_archive_fields(rv, packed.rom_relative_path, packed.zip_filename, packed.roms))
  IN  /\ id \in SeqRange(related_roms)
      /\ parent_of(entries, id) # 0
      /\ exists(roms_dir, rv.filename)
      /\ extracted # <<>>
      /\ roms_dir' = packed.roms
      /\ IF packed.raised
         THEN UNCHANGED <<entries, database_json>>
         ELSE /\ entries' = es
              /\ database_json' = save_database(es)
      /\ UNCHANGED <<covers_dir, next_uuid, current_game, related_roms, worker_vars,
                     compress_all_enabled, edits, pick_vars>>

\* the window is closed and the program started again
restart ==
  /\ start_program
  /\ UNCHANGED <<roms_dir, covers_dir, next_uuid, edits, pick_vars>>

\* ------------------------------------------------------- CompressionWorker
\* every RomVersion of every entry, in the order run's two loops visit them
RECURSIVE flatten(_)
flatten(es) == IF es = <<>> THEN <<>> ELSE es[1].rom_versions \o flatten(Tail(es))

\* is_legacy_unzipped_and_exists
qualifies(rv, dir) ==
  /\ exists(dir, basename(rv.filename))
  /\ lower(suffix(basename(rv.filename))) \in RomSuffixes
  /\ ~exists(dir, rv.internal_file_id \o DotZip)

\* the first phase of run: the list of (rom_version, original_rom_path_legacy)
scan(es, dir) ==
  LET found == SelectSeq(flatten(es), LAMBDA rv : qualifies(rv, dir))
  IN  [i \in 1..Len(found) |-> [id |-> found[i].id, path |-> basename(found[i].filename),
                                 key |-> found[i].internal_file_id]]

progress_updated(current, total, label) ==
  [sig |-> "progress_updated", current |-> current, total |-> total, label |-> label,
   success |-> TRUE]
compression_finished(success, count) ==
  [sig |-> "compression_finished", current |-> count, total |-> 0, label |-> <<>>,
   success |-> success]

\* the handler without setEnabled(False)
compress_all_unzipped_roms_button_left_on ==
  /\ compress_all_enabled
  /\ wpc' = "scan"
  /\ roms_to_compress' = <<>>
  /\ widx' = 0
  /\ processed_count' = 0
  /\ signals' = <<>>
  /\ UNCHANGED <<entries, roms_dir, covers_dir, database_json, next_uuid, current_game,
                 related_roms, compress_all_enabled, edits, pick_vars>>

\* compress_all_unzipped_roms, confirmed: the worker is created and started;
\* the button is what the user starts it with
compress_all_unzipped_roms ==
  /\ compress_all_enabled
  /\ compress_all_enabled' = FALSE
  /\ wpc' = "scan"
  /\ roms_to_compress' = <<>>
  /\ widx' = 0
  /\ processed_count' = 0
  /\ signals' = <<>>
  /\ UNCHANGED <<entries, roms_dir, covers_dir, database_json, next_uuid, current_game,
                 related_roms, edits, pick_vars>>

\* run, up to the for loop
run_scan ==
  /\ wpc = "scan"
  /\ roms_to_compress' = scan(entries, roms_dir)
  /\ IF scan(entries, roms_dir) = <<>>
     THEN /\ signals' = Append(signals, compression_finished(TRUE, 0))
          /\ wpc' = "finished"
          /\ widx' = 0
     ELSE /\ signals' = signals
          /\ wpc' = "loop"
          /\ widx' = 1
  /\ processed_count' = 0
  /\ UNCHANGED <<entries, roms_dir, covers_dir, database_json, next_uuid, current_game,
                 related_roms, compress_all_enabled, edits, pick_vars>>

\* the finished signal emitted once more after the loop
end_of_item_emitting_twice(sigs, count) ==
  IF widx = Len(roms_to_compress)
  THEN /\ signals' = Append(Append(sigs, compression_finished(TRUE, count)),
                            compression_finished(TRUE, count))
       /\ wpc' = "finished"
       /\ widx' = widx
  ELSE /\ signals' = sigs
       /\ wpc' = "loop"
       /\ widx' = widx + 1

\* after the loop body for the item at widx: the next item, or the end of run
end_of_item(sigs, count) ==
  IF widx = Len(roms_to_compress)
  THEN /\ signals' = Append(sigs, compression_finished(TRUE, count))
       /\ wpc' = "finished"
       /\ widx' = widx
  ELSE /\ signals' = sigs
       /\ wpc' = "loop"
       /\ widx' = widx + 1

\* one pass of run's for loop, for the item at widx; the worker holds the
\* RomVersion object itself, which the catalog may no longer hold
run_item(pack_io) ==
  LET item == roms_to_compress[widx]
      total == Len(roms_to_compress)
      announced == Append(signals, progress_updated(processed_count, total, item.path))
      held == \E rv \in all_rom_versions : rv.id = item.id
      file_identifier == item.key
      packed == copy_and_zip_rom_file(roms_dir, item.path, roms_dir[item.path].size,
                                      file_identifier, pack_io)
      unlinked == unlink(packed.roms, {item.path})
      updated == set_archive_fields(rom_version_by_id(entries, item.id),
                                    packed.rom_relative_path, packed.zip_filename, unlinked)
  IN  /\ wpc = "loop"
      /\ IF ~exists(roms_dir, item.path)
         THEN /\ processed_count' = processed_count + 1
              /\ end_of_item(announced, processed_count + 1)
              /\ UNCHANGED <<entries, roms_dir>>
         ELSE IF packed.raised
         THEN /\ roms_dir' = packed.roms
              /\ signals' = Append(announced, compression_finished(FALSE, processed_count))
              /\ wpc' = "finished"
              /\ UNCHANGED <<entries, widx, processed_count>>
         ELSE /\ roms_dir' = unlinked
              /\ entries' = IF held THEN replace_rom_version(entries, updated) ELSE entries
              /\ processed_count' = processed_count + 1
              /\ end_of_item(Append(announced,
                                    progress_updated(processed_count + 1, total, item.path)),
                             processed_count + 1)
      /\ UNCHANGED <<covers_dir, database_json, next_uuid, current_game, related_roms,
                     roms_to_compress, compress_all_enabled, edits, pick_vars>>

\* handle_compression_finished, run by the GUI thread for the finished signal
handle_compression_finished ==
  /\ wpc = "finished"
  /\ IF signals[Len(signals)].success
     THEN /\ database_json' = save_database(entries)
          /\ entries' = refresh_rom_list(entries)
          /\ current_game' = <<>>
     ELSE UNCHANGED <<database_json, entries, current_game>>
  /\ compress_all_enabled' = TRUE
  /\ wpc' = "idle"
  /\ UNCHANGED <<roms_dir, covers_dir, next_uuid, related_roms, roms_to_compress, widx,
                 processed_count, signals, edits, pick_vars>>

\* ------------------------------------------------------------ specification
\* The catalog operations, from a first start with no database.json
Init == started(0, <<>>, {})

Next ==
  \/ \E f \in PickedFiles, cover \in AddCovers, pack_io \in PackOutcomes, cover_io \in CoverOutcomes :
       add_to_database(f, cover, pack_io, cover_io)
  \/ \E f \in PickedFiles, cover \in AddCovers, pack_io \in PackOutcomes, cover_io \in CoverOutcomes :
       add_new_regional_rom(f, cover, pack_io, cover_io)
  \/ \E rv \in all_rom_versions, region \in EditRegions, version \in EditVersions,
        cover \in EditCovers, cover_io \in CoverOutcomes :
       edit_selected_regional_rom(rv.id, region, version, cover, cover_io)
  \/ delete_selected_game
  \/ \E rv \in all_rom_versions : delete_selected_regional_rom(rv.id)
  \/ \E i \in 1..Len(entries) : on_game_selected(i)
  \/ refresh_clicked
  \/ save_clicked
  \/ \E rv \in all_rom_versions, pack_io \in PackOutcomes : recompress_selected_rom(rv.id, pack_io)
  \/ restart

Spec == Init /\ [][Next]_vars

\* The bulk compression, from a start on a database written before ROMs were
\* packed: variant 1 names the first legacy file, the others either, and the
\* file of the last variant may be missing from assets/roms
InitLegacy ==
  \E k \in 0..MaxLegacy : \E nm \in [1..k -> LegacyNames] :
  \E disk \in (IF k = 0 THEN {{}}
               ELSE {{nm[i] : i \in 1..k}, {nm[i] : i \in 1..k} \ {nm[k]}}) :
    /\ k >= 1 => nm[1] = <<"o",".","n","d","s">>
    /\ started(k, nm, disk)

NextRepack ==
  \/ compress_all_unzipped_roms
  \/ run_scan
  \/ \E pack_io \in PackOutcomes : run_item(pack_io)
  \/ handle_compression_finished
  \/ \E i \in 1..Len(entries) : on_game_selected(i)
  \/ \E rv \in all_rom_versions : delete_selected_regional_rom(rv.id)
  \/ delete_selected_game
  \/ \E rv \in all_rom_versions, pack_io \in PackOutcomes : recompress_selected_rom(rv.id, pack_io)
  \/ save_clicked
  \/ restart

SpecRepack == InitLegacy /\ [][NextRepack]_vars

\* The worker thread is scheduled until run returns, and the event loop of
\* the GUI thread delivers the finished signal it queued
SpecRepackFair ==
  /\ SpecRepack
  /\ WF_vars(run_scan)
  /\ WF_vars(\E pack_io \in PackOutcomes : run_item(pack_io))
  /\ WF_vars(handle_compression_finished)

\* The same with the edit dialog, for what a variant keeps through edits and
\* repacks
NextRepackEdit ==
  \/ NextRepack
  \/ \E rv \in all_rom_versions, region \in EditRegions, version \in EditVersions,
        cover \in EditCovers, cover_io \in CoverOutcomes :
       edit_selected_regional_rom(rv.id, region, version, cover, cover_io)

SpecRepackEdit == InitLegacy /\ [][NextRepackEdit]_vars

\* Loading, from the state __init__ is in when it calls load_database: no
\* entries yet, and on disk a database.json and an assets/roms directory left
\* by an earlier run or an earlier version of the program.
\* ids as str(uuid.uuid4()) starts them; the first two agree on 8 characters
LoadIds == {<<"0","0","0","0","0","0","0","a","1">>, <<"0","0","0","0","0","0","0","a","2">>,
            <<"0","0","0","0","0","0","0","b","1">>}
KZip == <<"k",".","z","i","p">>
ONds == <<"o",".","n","d","s">>
RNds == <<"r",".","n","d","s">>
\* the directories the load can meet
LoadDisks ==
  {<<>>,
   [n \in {ONds, KZip} |-> IF n = KZip THEN zip_file(RNds, 4) ELSE bare_rom(4)],
   [n \in {KZip} |-> partial_zip]}

\* a record of one game with two variants of one game id and region; the first
\* has an internal_rom_filename or not, the second an unknown key or not
load_database_json(id1, id2, fname, named, extra) ==
  LET rom_dict(id, f) ==
        [id |-> id, region |-> USA, version |-> <<"0">>, download_url |-> <<>>,
         filename |-> f, filesize |-> str_of_int(4), icon_url |-> <<>>,
         game_id |-> LegacyGameId(1), extracted_region_from_rom |-> USA]
      with_key(d, k, v) == [x \in (DOMAIN d) \cup {k} |-> IF x = k THEN v ELSE d[x]]
      d1 == rom_dict(id1, fname)
      d2 == rom_dict(id2, ONds)
  IN  <<[id |-> <<"e">>, name |-> LegacyTitle(LegacyGameId(1)), creator |-> <<"0","1">>,
         platform |-> Nds, game_id |-> LegacyGameId(1),
         rom_versions |->
           <<IF named THEN with_key(d1, "internal_rom_filename", RNds) ELSE d1,
             IF extra THEN with_key(d2, "crc", <<"0">>) ELSE d2>>]>>

\* a database in the tab-separated format of to_lines_for_txt: the two marker
\* lines, then one line of 9 fields, or of 10 with internal_rom_filename
flat_database(n) ==
  LET fields == <<LegacyTitle(LegacyGameId(1)) \o <<" ", "-", " ">> \o USA, Nds, USA, <<"0">>, <<"0","1">>,
                  RomsPrefix \o ONds, ONds, str_of_int(4), <<>>, ONds>>
  IN  <<[flat |-> <<<<"1">>>>], [flat |-> <<<<>>, <<>>>>], [flat |-> SubSeq(fields, 1, n)]>>

LoadDatabases ==
  {load_database_json(id1, id2, fname, named, extra) :
     id1 \in LoadIds, id2 \in LoadIds \ {<<"0","0","0","0","0","0","0","a","1">>},
     fname \in {ONds, KZip, JsonNull}, named \in BOOLEAN, extra \in BOOLEAN}
  \cup {flat_database(n) : n \in {9, 10}}

InitLoad ==
  /\ entries = <<>>
  /\ database_json \in {db \in LoadDatabases :
                          json_decodes(db) =>
                            db[1].rom_versions[1].id # db[1].rom_versions[2].id}
  /\ roms_dir \in LoadDisks
  /\ covers_dir = {}
  /\ next_uuid = 1
  /\ current_game = <<>>
  /\ related_roms = <<>>
  /\ wpc = "idle"
  /\ roms_to_compress = <<>>
  /\ widx = 0
  /\ processed_count = 0
  /\ signals = <<>>
  /\ compress_all_enabled = TRUE
  /\ edits = 0
  /\ nothing_picked

NextLoad ==
  \/ restart
  \/ \E i \in 1..Len(entries) : on_game_selected(i)
  \/ \E rv \in all_rom_versions : delete_selected_regional_rom(rv.id)

SpecLoad == InitLoad /\ [][NextLoad]_vars

\* ------------------------------------------------------ picking a ROM file
\* What the file dialog can return, byte by byte.  A ROM image is laid out
\* as the header is: title at 0x00, game id at 0x0C, maker code at 0x12,
\* version at 0x1E, zero elsewhere; rom_image cuts it after n bytes.
rom_image(title, game_id, maker_code, version, n) ==
  LET zeros(k) == [i \in 1..k |-> 0]
      pad(bs, k) == IF Len(bs) >= k THEN SubSeq(bs, 1, k) ELSE bs \o zeros(k - Len(bs))
  IN  SubSeq(pad(title, 12) \o pad(game_id, 4) \o zeros(2) \o pad(maker_code, 2)
               \o zeros(10) \o <<version>> \o zeros(HeaderLen + 1 - 31), 1, n)

\* ROM files of the lengths around the offsets extract_info reads and around
\* 0x200; with every capital as 4th character of the game id, small letters,
\* a digit, a high byte that decoding drops, NULs that strip removes and NULs
\* that it keeps; with a title, without one, with a high byte in it; named
\* as a ROM, as something else, as an archive
UserRoms ==
  LET NameZ == <<"d","/","z",".","n","d","s">>
      NameM == <<"m",".","D","S","I">>
      NameBin == <<"r",".","b","i","n">>
      NameNotZip == <<"n",".","z","i","p">>
      ImageLengths == {0, 12, 16, 30, 31, 511, 512, 513}
      GameIdBytes ==
        {<<65, 65, 65, c>> : c \in 65..90} \cup
        {<<97, 97, 97, 106>>, <<97, 97, 97, 113>>, <<65, 65, 65, 49>>, <<200, 65, 65, 69>>,
         <<0, 65, 65, 69>>, <<65, 66, 0, 0>>, <<65, 0, 0, 69>>, <<0, 0, 0, 0>>}
      TitleBytes == {<<90, 101>>, <<>>, <<255, 90, 0, 101>>}
  IN  {[name |-> NameZ, data |-> rom_image(<<90, 101>>, <<65, 65, 65, 69>>, <<48, 49>>, 1, n)] :
         n \in ImageLengths} \cup
      {[name |-> NameZ, data |-> rom_image(<<90, 101>>, g, <<48, 49>>, 0, HeaderLen)] :
         g \in GameIdBytes} \cup
      {[name |-> NameM, data |-> rom_image(t, <<66, 66, 66, 80>>, <<200, 50>>, 255, HeaderLen)] :
         t \in TitleBytes} \cup
      {[name |-> NameBin,
        data |-> rom_image(<<90, 101>>, <<65, 65, 65, 74>>, <<48, 49>>, 0, HeaderLen)],
       [name |-> NameNotZip,
        data |-> rom_image(<<90, 101>>, <<65, 65, 65, 74>>, <<48, 49>>, 0, HeaderLen)]}

\* archives made elsewhere: their ROM-like entries in either order, of equal
\* or different sizes, one in a folder, one that is no ROM, none at all
UserArchives ==
  LET entry(name, image) == [name |-> name, data |-> deflate(image)]
      Small == rom_image(<<90, 101>>, <<65, 65, 65, 69>>, <<48, 49>>, 0, 31)
      Large == rom_image(<<90, 101>>, <<65, 65, 65, 74>>, <<48, 49>>, 0, 40)
      Large2 == rom_image(<<90, 101>>, <<65, 65, 65, 80>>, <<48, 49>>, 0, 40)
      NameA == <<"a",".","n","d","s">>
      NameB == <<"b",".","N","D","S">>
      NameC == <<"c",".","d","s","i">>
      NameSub == <<"s","/","b",".","n","d","s">>
      NameTxt == <<"r",".","t","x","t">>
  IN  {[name |-> <<"u",".","Z","I","P">>, entries |-> es] :
         es \in {<<entry(NameA, Small), entry(NameB, Large)>>,
                 <<entry(NameB, Large), entry(NameA, Small)>>,
                 <<entry(NameA, Large), entry(NameB, Large2)>>,
                 <<entry(NameA, Small), entry(NameB, Large), entry(NameC, Small)>>,
                 <<entry(NameC, Large), entry(NameTxt, Large2), entry(NameA, Small)>>,
                 <<entry(NameA, Large), entry(NameSub, Small)>>,
                 <<entry(NameA, Large)>>,
                 <<entry(NameA, <<>>)>>,
                 <<entry(NameTxt, Large)>>,
                 <<>>}}

\* AddRegionalRomDialog.load_nds_file with the file the dialog returned
load_nds_file(file) ==
  LET \* region_combo.findText(region) >= 0 ? that item : "ANY"
      region_combo_text(region) == IF region \in region_combo_items THEN region ELSE ANY
  IN
  IF endswith(lower(file.name), DotZip)
  THEN LET unpacked == unpack_zip_rom_bytes(file)
       IN  IF unpacked.path = <<>>
           THEN /\ current_nds_path' = NoFile
                /\ temp_zip_extraction_dir' = <<>>
                /\ UNCHANGED <<self_nds_info, initial_region>>
           ELSE \* a path unpack_zip_rom unlinked again reads as an empty file
                LET rom == [name |-> unpacked.path,
                            data |-> IF exists(unpacked.dir, unpacked.path)
                                     THEN unpacked.dir[unpacked.path] ELSE <<>>]
                    info == read_header(rom)
                IN  /\ current_nds_path' = rom
                    /\ temp_zip_extraction_dir' = unpacked.dir
                    /\ self_nds_info' =
                         IF extract_info_raises(info) THEN NoInfo ELSE extract_info(info)
                    /\ initial_region' =
                         IF extract_info_raises(info) THEN initial_region
                         ELSE region_combo_text(extract_info(info).region_from_rom)
  ELSE LET info == read_header(file)
       IN  /\ current_nds_path' = file
           /\ temp_zip_extraction_dir' = <<>>
           /\ self_nds_info' = IF extract_info_raises(info) THEN NoInfo ELSE extract_info(info)
           /\ initial_region' =
                IF extract_info_raises(info) THEN initial_region
                ELSE region_combo_text(extract_info(info).region_from_rom)

\* the table of AddRegionalRomDialog.load_initial_data
initial_region_map(c) ==
  CASE c \in {"A","B","G","K","O"} -> ANY
    [] c = "C" -> CHI
    [] c \in {"D","F","H","I","M","N","P","V","W","X","Y","Z"} -> EUR
    [] c \in {"E","L","T"} -> USA
    [] c = "J" -> JPN
    [] c = "Q" -> <<"D","A">>
    [] c = "R" -> RU
    [] c = "S" -> ES
    [] c = "U" -> AUS
    [] OTHER -> ANY

\* the dialog opens on a game of the catalog: nothing picked, the region
\* pre-seeded from the game's id where the combo box has the region (a new
\* combo box shows its first item, "ANY")
load_initial_data(game_id) ==
  /\ current_nds_path' = NoFile
  /\ temp_zip_extraction_dir' = <<>>
  /\ self_nds_info' = NoInfo
  /\ initial_region' =
       IF Len(game_id) >= 4 /\ initial_region_map(upper_char(game_id[4])) \in region_combo_items
       THEN initial_region_map(upper_char(game_id[4]))
       ELSE ANY
  /\ UNCHANGED zip_dest

\* accept_entry with the OK button enabled: the picked ROM is packed under key
pack_picked(file_identifier) ==
  /\ current_nds_path # NoFile
  /\ self_nds_info # NoInfo
  /\ zip_dest' = ZipFile_w_write(zip_dest, file_identifier \o DotZip, current_nds_path)
  /\ UNCHANGED <<current_nds_path, temp_zip_extraction_dir, self_nds_info, initial_region>>

\* picking ROM files and archives, opening the dialog on the games whose ids
\* extract_info read from them
NextPick ==
  \/ \E file \in UserRoms \cup UserArchives :
       /\ load_nds_file(file)
       /\ UNCHANGED <<zip_dest, entries, roms_dir, covers_dir, database_json, next_uuid,
                      current_game, related_roms, worker_vars, compress_all_enabled, edits>>
  \/ \E game_id \in {read_header(f).game_id : f \in UserRoms} :
       /\ load_initial_data(game_id)
       /\ UNCHANGED <<entries, roms_dir, covers_dir, database_json, next_uuid,
                      current_game, related_roms, worker_vars, compress_all_enabled, edits>>

SpecPick == Init /\ [][NextPick]_vars

\* picking, packing under one key, and picking what was packed: ROM files of
\* each name, the .nds ones just long enough to be read or longer than 0x200
NextPack ==
  \/ \E file \in {f \in UserRoms : Len(f.data) \in {31, HeaderLen + 1} \/ ~endswith(f.name, DotNds)}
                 \cup UserArchives
                 \cup {[name |-> n, entries |-> zip_dest[n]] : n \in DOMAIN zip_dest} :
       /\ load_nds_file(file)
       /\ UNCHANGED <<zip_dest, entries, roms_dir, covers_dir, database_json, next_uuid,
                      current_game, related_roms, worker_vars, compress_all_enabled, edits>>
  \/ \E file_identifier \in {<<"k">>} :
       /\ pack_picked(file_identifier)
       /\ UNCHANGED <<entries, roms_dir, covers_dir, database_json, next_uuid,
                      current_game, related_roms, worker_vars, compress_all_enabled, edits>>

SpecPack == Init /\ [][NextPack]_vars

\* ================================================================ properties
count_rom_versions(es) == Len(flatten(es))
entries_with_game_id(es, g) == {i \in 1..Len(es) : es[i].game_id = g}

\* what a successful add_to_database of a ROM with game id g does to the catalog
DedupStep(g) ==
  IF entries_with_game_id(entries, g) # {}
  THEN /\ Len(entries') = Len(entries)
       /\ \A i \in 1..Len(entries) : \E j \in 1..Len(entries') :
            /\ entries'[j].id = entries[i].id
            /\ Len(entries'[j].rom_versions) =
                 Len(entries[i].rom_versions) + (IF entries[i].game_id = g THEN 1 ELSE 0)
  ELSE /\ Len(entries') = Len(entries) + 1
       /\ \E j \in 1..Len(entries') :
            /\ entries'[j].game_id = g
            /\ Len(entries'[j].rom_versions) = 1
            /\ entries'[j].rom_versions[1].game_id = g
            /\ \A i \in 1..Len(entries) : entries[i].id # entries'[j].id

NoSharedGameId ==
  \A i, j \in 1..Len(entries) : entries[i].game_id = entries[j].game_id => i = j

\* C1: add_to_database of a ROM whose game id an entry already has appends one
\* variant to that entry and creates no entry; with an unseen game id it
\* creates one entry holding that one variant; and no two entries ever share a
\* game id.
C1_IngestDedup ==
  /\ []NoSharedGameId
  /\ [][\A f \in RomFiles, cover \in AddCovers, pack_io \in PackOutcomes,
           cover_io \in CoverOutcomes :
          (add_to_database(f, cover, pack_io, cover_io)
             /\ count_rom_versions(entries') # count_rom_versions(entries))
          => (count_rom_versions(entries') = count_rom_versions(entries) + 1
                /\ DedupStep(f.game_id))]_vars

\* two ROMs with one game id were added: one entry, two variants
C1_Witness ==
  /\ Len(entries) = 1
  /\ Len(entries[1].rom_versions) = 2
  /\ \A j \in 1..2 : entries[1].rom_versions[j].game_id = entries[1].game_id

NoEmptyEntry == \A i \in 1..Len(entries) : entries[i].rom_versions # <<>>

\* C2: deleting the last variant of an entry removes the entry, and no entry
\* of the catalog is ever without a variant.
C2_LastVariantRemovesEntry ==
  /\ []NoEmptyEntry
  /\ [][\A rv \in all_rom_versions :
          (delete_selected_regional_rom(rv.id)
             /\ Len(entries[parent_of(entries, rv.id)].rom_versions) = 1)
          => \A j \in 1..Len(entries') :
               entries'[j].id # entries[parent_of(entries, rv.id)].id]_vars

\* a variant was added, edited and deleted, and its entry went with it: the
\* catalog is empty again, and so is the saved database
C2_Witness ==
  /\ edits = 1
  /\ entries = <<>>
  /\ database_json = <<>>

entry_of(es, id) == es[parent_of(es, id)]
variant_of(es, id) == rom_version_by_id(es, id)
has_variant(es, id) == \E rv \in all_rom_versions_of(es) : rv.id = id

uuid_index(id) == CHOOSE n \in 1..(MaxUuid + 2) : uuid4(n) = id

\* C4: the variants saved for each entry are in the order they were inserted.
C4_SavedInInsertionOrder ==
  \A i \in 1..Len(database_json) :
    \A j, k \in 1..Len(database_json[i].rom_versions) :
      j < k => uuid_index(database_json[i].rom_versions[j].id)
                 < uuid_index(database_json[i].rom_versions[k].id)

is_local_cover(icon_url) == icon_url # <<>> /\ ~startswith(icon_url, Http)

\* C5: when an edit turns a locally stored cover into a remote URL or into no
\* cover, the file covers/{key}.png is gone after it.
C5_EditDeletesOldLocalCover ==
  [][\A rv \in all_rom_versions, region \in EditRegions, version \in EditVersions,
        cover \in {"none", "remote"}, cover_io \in CoverOutcomes :
       (edit_selected_regional_rom(rv.id, region, version, cover, cover_io)
          /\ is_local_cover(rv.icon_url))
       => (rv.internal_file_id \o DotPng) \notin covers_dir']_vars

\* C6: when a bulk repack has ended, every item of its list has been worked on.
C6_BulkRepackWorksOnEveryItem ==
  wpc = "finished" => widx = Len(roms_to_compress)

archive_fields(rv) == <<rv.download_url, rv.filename, rv.filesize>>

\* the three fields as they must read once roms/{key}.zip has been written
packed_fields(rv, dir) ==
  <<RomsPrefix \o rv.internal_file_id \o DotZip,
    rv.internal_file_id \o DotZip,
    str_of_int(getsize(dir[rv.internal_file_id \o DotZip]))>>

bulk_repack_step ==
  \/ compress_all_unzipped_roms
  \/ run_scan
  \/ \E pack_io \in PackOutcomes : run_item(pack_io)
  \/ handle_compression_finished

\* C7: a step of the bulk repack leaves download_url, filename and filesize of
\* a variant as they were, or, for the item it has just packed into a whole
\* roms/{key}.zip, sets all three to the values of that archive.
C7_FieldsChangeOnlyAfterPack ==
  [][bulk_repack_step =>
       \A rv \in all_rom_versions : \A rv2 \in all_rom_versions' :
         rv2.id = rv.id =>
           \/ archive_fields(rv2) = archive_fields(rv)
           \/ /\ wpc = "loop"
              /\ roms_to_compress[widx].id = rv.id
              /\ exists(roms_dir, roms_to_compress[widx].path)
              /\ exists(roms_dir', rv.internal_file_id \o DotZip)
              /\ roms_dir'[rv.internal_file_id \o DotZip] =
                   zip_file(roms_to_compress[widx].path,
                            roms_dir[roms_to_compress[widx].path].size)
              /\ archive_fields(rv2) = packed_fields(rv, roms_dir')]_vars

\* a bulk repack of two variants ended on a failure after one pack: one variant
\* has the fields of its archive, the other still has its legacy ones
C7_Witness ==
  /\ wpc = "finished"
  /\ Len(roms_to_compress) = 2
  /\ signals # <<>>
  /\ ~signals[Len(signals)].success
  /\ \E rv \in all_rom_versions :
       /\ rv.id = roms_to_compress[1].id
       /\ exists(roms_dir, rv.internal_file_id \o DotZip)
       /\ archive_fields(rv) = packed_fields(rv, roms_dir)
  /\ \E rv \in all_rom_versions :
       /\ rv.id = roms_to_compress[2].id
       /\ rv.filename = roms_to_compress[2].path
       /\ rv.download_url = RomsPrefix \o roms_to_compress[2].path

\* C8: no file of the roms directory is a partly written archive.
C8_NoPartialArchive ==
  \A n \in DOMAIN roms_dir : roms_dir[n].whole

\* C9: once a variant is deleted, roms/{key}.zip, the ROM file named by its
\* filename field and covers/{key}.png are all gone.
C9_DeleteRemovesEveryFile ==
  [][\A rv \in all_rom_versions :
       delete_selected_regional_rom(rv.id)
       => /\ ~exists(roms_dir', rv.internal_file_id \o DotZip)
          /\ ~exists(roms_dir', basename(rv.filename))
          /\ (rv.internal_file_id \o DotPng) \notin covers_dir']_vars

\* C10: a variant that is in the catalog before and after a step has the same
\* internal_file_id after it as before.
C10_KeyIsStable ==
  [][\A rv \in all_rom_versions : \A rv2 \in all_rom_versions' :
       rv2.id = rv.id => rv2.internal_file_id = rv.internal_file_id]_vars

\* a variant loaded from a legacy record, edited to another region, packed by
\* the bulk compression and loaded again from the saved database: its key is
\* still the one made from the region it was loaded with
C10_Witness ==
  /\ edits = 1
  /\ wpc = "idle"
  /\ signals # <<>>
  /\ signals[Len(signals)].success
  /\ entries = load_database(database_json, roms_dir).entries
  /\ \E rv \in all_rom_versions :
       /\ \E i \in 1..Len(roms_to_compress) : roms_to_compress[i].id = rv.id
       /\ rv.internal_file_id #
            sanitize_filename(rv.game_id \o <<"_">> \o rv.region \o <<"_">>
                                \o prefix(rv.id, IdPrefixLen))
       /\ rv.internal_file_id =
            sanitize_filename(rv.game_id \o <<"_">> \o rv.extracted_region_from_rom
                                \o <<"_">> \o prefix(rv.id, IdPrefixLen))
       /\ exists(roms_dir, rv.internal_file_id \o DotZip)
       /\ archive_fields(rv) = packed_fields(rv, roms_dir)

\* C11: two variants created with the same game_id and the same region, and
\* with ids (as uuid4 writes them) that differ within their first 8
\* characters, get different internal_file_ids; and in a catalog built by
\* ingests no two variants share an internal_file_id, so none share the path
\* of a ROM archive or of a cover.
created_key(g, r, id) == RomVersion([id |-> id, game_id |-> g, region |-> r]).internal_file_id
created_keys_differ ==
  \A g \in {RomA.game_id, RomB.game_id} : \A r \in region_combo_items :
    \A id1 \in LoadIds \cup {uuid4(n) : n \in 1..(MaxUuid + 1)} :
      \A id2 \in LoadIds \cup {uuid4(n) : n \in 1..(MaxUuid + 1)} :
        prefix(id1, IdPrefixLen) # prefix(id2, IdPrefixLen)
          => created_key(g, r, id1) # created_key(g, r, id2)
C11_KeysDiffer ==
  /\ created_keys_differ
  /\ \A rv1 \in all_rom_versions : \A rv2 \in all_rom_versions :
       rv1.id # rv2.id
         => /\ rv1.internal_file_id # rv2.internal_file_id
            /\ rv1.internal_file_id \o DotZip # rv2.internal_file_id \o DotZip
            /\ \A x \in CoverSuffixes :
                 rv1.internal_file_id \o x # rv2.internal_file_id \o x
C11_Witness ==
  \E rv1 \in all_rom_versions : \E rv2 \in all_rom_versions :
    /\ rv1.id # rv2.id
    /\ rv1.game_id = rv2.game_id
    /\ rv1.region = rv2.region
    /\ rv1.internal_file_id # rv2.internal_file_id
    /\ rv1.internal_file_id \o DotZip \in DOMAIN roms_dir
    /\ rv2.internal_file_id \o DotZip \in DOMAIN roms_dir

\* C12: the scan of the bulk repack selects exactly the variants for which no
\* file exists at roms/{internal_file_id}.zip and the recorded filename names
\* a bare ROM file that exists under roms/; and a variant the scan did not
\* select is not changed by the batch, nor is the file its filename names or
\* its archive written or deleted by the batch.
rv_zip_missing(v) == (v.internal_file_id \o DotZip) \notin DOMAIN roms_dir
selected_ids == {roms_to_compress[i].id : i \in 1..Len(roms_to_compress)}
files_of(rv, dir) ==
  [n \in {basename(rv.filename), rv.internal_file_id \o DotZip} \cap DOMAIN dir |-> dir[n]]
C12_ScanSelects ==
  run_scan =>
    {roms_to_compress'[i].id : i \in 1..Len(roms_to_compress')} =
      {rv.id : rv \in {v \in all_rom_versions :
                         /\ rv_zip_missing(v)
                         /\ basename(v.filename) \in DOMAIN roms_dir
                         /\ ~roms_dir[basename(v.filename)].zip}}
C12_OthersUntouched ==
  (\E pack_io \in PackOutcomes : run_item(pack_io)) =>
    \A rv \in all_rom_versions :
      rv.id \notin selected_ids =>
        /\ rv \in all_rom_versions_of(entries')
        /\ files_of(rv, roms_dir') = files_of(rv, roms_dir)
C12_RepackQualification == [][C12_ScanSelects /\ C12_OthersUntouched]_vars

\* C13: in a bulk repack over n selected variants, once an item has been
\* handled (packed, skipped or failed) the last progress_updated signal
\* carries total = n and current = the number of items handled so far; the
\* counts of successive progress signals never decrease and never exceed n.
progress_signals(sigs) == SelectSeq(sigs, LAMBDA s : s.sig = "progress_updated")
C13_ProgressAfterEachItem ==
  [][(\E pack_io \in PackOutcomes : run_item(pack_io)) =>
       LET ps == progress_signals(signals')
           n == Len(roms_to_compress)
       IN  /\ ps # <<>>
           /\ ps[Len(ps)].total = n
           /\ ps[Len(ps)].current = widx
           /\ \A i \in 1..Len(ps) : ps[i].current <= n
           /\ \A i \in 1..(Len(ps) - 1) : ps[i].current <= ps[i + 1].current]_vars

\* C14: during a bulk repack, the legacy bare file of a selected variant is
\* removed only in a step that leaves the complete archive
\* roms/{internal_file_id}.zip of that variant on disk, and no step of the
\* batch leaves a selected variant without its ROM on disk, as the bare file
\* or as the complete archive.
rom_on_disk(item, dir) ==
  \/ item.path \in DOMAIN dir
  \/ /\ (item.key \o DotZip) \in DOMAIN dir
     /\ dir[item.key \o DotZip].whole
C14_UnlinkAfterPack ==
  (\E pack_io \in PackOutcomes : run_item(pack_io)) =>
    \A n \in (DOMAIN roms_dir) \ DOMAIN roms_dir' :
      /\ n = roms_to_compress[widx].path
      /\ (roms_to_compress[widx].key \o DotZip) \in DOMAIN roms_dir'
      /\ roms_dir'[roms_to_compress[widx].key \o DotZip].whole
C14_RomInOneForm ==
  (\E pack_io \in PackOutcomes : run_item(pack_io)) =>
    \A i \in 1..Len(roms_to_compress) :
      rom_on_disk(roms_to_compress[i], roms_dir) => rom_on_disk(roms_to_compress[i], roms_dir')
C14_LegacyDeletedAfterPack == [][C14_UnlinkAfterPack /\ C14_RomInOneForm]_vars

\* C15: a load changes, of the variants database.json holds (as from_dict
\* reads them, internal_file_id computed where the record has none), only the
\* internal_rom_filename of variants that had none, setting it to the name of
\* the ROM inside the archive the filename names or, when the filename names
\* a bare .nds/.dsi file, to that name; every other field, every variant that
\* had an internal_rom_filename, the entries' own fields and every file under
\* roms/ stay as they were.
same_but_inner(before, after, dir) ==
  /\ \A k \in RomVersionFields \ {"internal_rom_filename"} : after[k] = before[k]
  /\ before.internal_rom_filename # <<>> =>
       after.internal_rom_filename = before.internal_rom_filename
  /\ after.internal_rom_filename # before.internal_rom_filename =>
       /\ before.filename \in DOMAIN dir
       /\ after.internal_rom_filename =
            IF dir[before.filename].zip THEN dir[before.filename].inner ELSE before.filename
C15_LoadNeverRepacks ==
  [][(restart /\ json_decodes(database_json) /\ ~from_dict_raises(database_json)) =>
       LET stored == [i \in 1..Len(database_json) |-> GameEntry_from_dict(database_json[i])]
       IN  /\ roms_dir' = roms_dir
           /\ Len(entries') = Len(stored)
           /\ \A i \in 1..Len(stored) : \E j \in 1..Len(entries') :
                /\ \A k \in GameEntryFields \ {"rom_versions"} : entries'[j][k] = stored[i][k]
                /\ Len(entries'[j].rom_versions) = Len(stored[i].rom_versions)
                /\ \A v \in 1..Len(stored[i].rom_versions) :
                     same_but_inner(stored[i].rom_versions[v], entries'[j].rom_versions[v],
                                    roms_dir)]_vars
C15_Witness ==
  /\ roms_dir = [n \in {ONds, KZip} |-> IF n = KZip THEN zip_file(RNds, 4) ELSE bare_rom(4)]
  /\ \E rv1 \in all_rom_versions : \E rv2 \in all_rom_versions :
       /\ rv1.filename = KZip
       /\ rv1.internal_rom_filename = RNds
       /\ rv2.filename = ONds
       /\ rv2.internal_rom_filename = ONds

\* C16: for every catalog reached through adds, edits and deletes, reading
\* back what save_database writes gives the catalog again: the same entries
\* in the same order, the same variants in the same order, every field
\* equal, the ids of entries and variants those that were written; and a
\* whole load of the written file gives that catalog too.
decode(db) == [i \in 1..Len(db) |-> GameEntry_from_dict(db[i])]
C16_RoundTrip ==
  /\ json_decodes(save_database(entries))
  /\ ~from_dict_raises(save_database(entries))
  /\ decode(save_database(entries)) = entries
  /\ load_database(save_database(entries), roms_dir).entries = entries
C16_Witness ==
  /\ Len(entries) >= 2
  /\ edits = 1
  /\ \E rv \in all_rom_versions : rv.internal_file_id # post_init_always(rv).internal_file_id
  /\ decode(save_database(entries)) = entries

\* C17: loading a database in the tab-separated format (a version marker,
\* then one line of 9 or 10 fields for each variant) yields one variant for
\* each line, with the line's region, version, filename and filesize.
C17_FlatRecordsReadable ==
  [][(restart /\ ~json_decodes(database_json)) =>
       LET lines == SubSeq(database_json, 3, Len(database_json))
       IN  /\ Cardinality(all_rom_versions_of(entries')) = Len(lines)
           /\ \A i \in 1..Len(lines) : \E rv \in all_rom_versions_of(entries') :
                /\ rv.region = lines[i].flat[3]
                /\ rv.version = lines[i].flat[4]
                /\ rv.filename = lines[i].flat[7]
                /\ rv.filesize = lines[i].flat[8]]_vars

\* C18: when database.json cannot be loaded (it is not JSON, a record is
\* malformed, or the backfill raises), the load ends without raising and the
\* catalog in memory is empty.
load_fails(db) ==
  \/ ~json_decodes(db)
  \/ from_dict_raises(db)
  \/ \E rv \in all_rom_versions_of(decode(db)) : backfill_raises(rv)
C18_FailedLoadLeavesEmptyCatalog ==
  [][(restart /\ load_fails(database_json)) => entries' = <<>>]_vars

\* C19: an add_to_database attempt in which reading the header or packing the
\* ROM fails leaves the entries, their variants and database.json exactly as
\* they were; a regional add whose pack fails leaves database.json as it was
\* and the catalog with the same entries and variants.
C19_FailedIngestChangesNothing ==
  [][\A f \in PickedFiles, cover \in AddCovers, pack_io \in PackOutcomes,
        cover_io \in CoverOutcomes :
       (extract_info_raises(f) \/ pack_io # "ok") =>
         /\ add_to_database(f, cover, pack_io, cover_io) =>
              /\ entries' = entries
              /\ database_json' = database_json
         /\ add_new_regional_rom(f, cover, pack_io, cover_io) =>
              /\ database_json' = database_json
              /\ all_rom_versions_of(entries') = all_rom_versions
              /\ {[e EXCEPT !.rom_versions = <<>>] : e \in SeqRange(entries')} =
                   {[e EXCEPT !.rom_versions = <<>>] : e \in SeqRange(entries)}]_vars
C19_Witness ==
  /\ entries = <<>>
  /\ database_json = <<>>
  /\ next_uuid = 2
  /\ \E n \in DOMAIN roms_dir : ~roms_dir[n].whole

\* C20: an add for which no cover was found, or whose chosen local cover
\* cannot be stored (copy_local_cover_file returns ""), still succeeds: the
\* new variant is in the catalog and in database.json, its archive is packed
\* whole under roms/, its icon_url is empty and no cover file is written.
without_cover(cover, cover_io) == cover = "none" \/ (cover = "local" /\ cover_io = "image_error")
added_without_cover ==
  \E rv \in all_rom_versions_of(entries') :
    /\ rv.id = uuid4(next_uuid)
    /\ rv \notin all_rom_versions
    /\ rv.icon_url = <<>>
    /\ rv.filename = rv.internal_file_id \o DotZip
    /\ rv.filename \in DOMAIN roms_dir'
    /\ roms_dir'[rv.filename].whole
    /\ rv \in all_rom_versions_of(decode(database_json'))
    /\ covers_dir' = covers_dir
C20_CoverLossNeverAborts ==
  [][\A f \in RomFiles, cover \in AddCovers, cover_io \in CoverOutcomes :
       without_cover(cover, cover_io) =>
         /\ add_to_database(f, cover, "ok", cover_io) => added_without_cover
         /\ add_new_regional_rom(f, cover, "ok", cover_io) => added_without_cover]_vars
C20_Witness ==
  \E rv \in all_rom_versions :
    /\ rv.icon_url = <<>>
    /\ rv.filename \in DOMAIN roms_dir
    /\ roms_dir[rv.filename].whole
    /\ covers_dir = {}
    /\ database_json = save_database(entries)

\* C21: reading a picked ROM file fails exactly when the file is shorter than
\* 0x200 bytes: after load_nds_file of a ROM file, nds_info is None if and only
\* if the file has fewer than 0x200 bytes, whatever bytes its fields hold.
C21_TruncatedHeaderIsFatal ==
  [][\A file \in UserRoms :
       (load_nds_file(file) /\ ~endswith(lower(file.name), DotZip))
         => (self_nds_info' = NoInfo <=> Len(file.data) < HeaderLen)]_vars

\* C22: the region extract_info resolves is ANY for a game id of fewer than 4
\* characters and otherwise the table's value for the upper-cased 4th
\* character alone: E, L, T -> USA; J -> JPN; C -> CHI; U -> AUS; R -> RU;
\* S -> ES; D, F, H, I, M, N, P, V, W, X, Y, Z -> EUR; Q -> EUR or DA; any
\* other character -> ANY.
C22_RegionFromFourthChar ==
  self_nds_info # NoInfo =>
    LET g == self_nds_info.game_id
        c == upper_char(g[4])
        region == self_nds_info.region_from_rom
    IN  IF Len(g) < 4 THEN region = ANY
        ELSE /\ c \in {"E", "L", "T"} <=> region = USA
             /\ c = "J" <=> region = JPN
             /\ c = "C" <=> region = CHI
             /\ c = "U" <=> region = AUS
             /\ c = "R" <=> region = RU
             /\ c = "S" <=> region = ES
             /\ c \in {"D","F","H","I","M","N","P","V","W","X","Y","Z"} => region = EUR
             /\ c = "Q" => region \in {EUR, <<"D","A">>}
             /\ c \notin Range(UpperCase) \ {"A","B","G","K","O"} <=> region = ANY

\* a ROM whose game id has a small j as 4th character was read as JPN, or one
\* whose id is cut to 3 characters by decoding as ANY
C22_Witness ==
  /\ self_nds_info # NoInfo
  /\ \/ /\ Len(self_nds_info.game_id) = 4
        /\ self_nds_info.game_id[4] = "j"
        /\ self_nds_info.region_from_rom = JPN
     \/ /\ Len(self_nds_info.game_id) = 3
        /\ self_nds_info.game_id[3] = "E"
        /\ self_nds_info.region_from_rom = ANY

\* C23: the region the dialog pre-selects for a game is the region that
\* extract_info resolves for that game id (as the region combo box shows it:
\* a region it does not list shows as ANY), for every 4th character A-Z.
C23_OneRegionTable ==
  [][\A game_id \in {read_header(f).game_id : f \in UserRoms} :
       load_initial_data(game_id) =>
         initial_region' = IF region_of_game_id(game_id) \in region_combo_items
                           THEN region_of_game_id(game_id) ELSE ANY]_vars

C25_OnlyLargestIsKept ==
  [][\A file \in UserArchives :
       LET roms == {i \in 1..Len(file.entries) : is_rom_name(file.entries[i].name)}
       IN  (load_nds_file(file) /\ Cardinality(roms) > 1) =>
             /\ current_nds_path' # NoFile
             /\ \A i \in roms :
                  Len(inflate(file.entries[i].data)) <= Len(current_nds_path'.data)
             /\ \E i \in roms :
                  /\ basename(file.entries[i].name) = current_nds_path'.name
                  /\ inflate(file.entries[i].data) = current_nds_path'.data
             /\ DOMAIN temp_zip_extraction_dir' = {current_nds_path'.name}]_vars

\* C26: packing under a key that already has an archive leaves one archive
\* for the key, holding exactly one entry: the ROM just packed, under its base
\* filename; the directory gains no other file.
C26_SecondPackReplaces ==
  [][\A file_identifier \in {<<"k">>} :
       LET zip_filename == file_identifier \o DotZip
       IN  (pack_picked(file_identifier) /\ exists(zip_dest, zip_filename)) =>
             /\ DOMAIN zip_dest' = DOMAIN zip_dest
             /\ Len(zip_dest'[zip_filename]) = 1
             /\ zip_dest'[zip_filename][1].name = basename(current_nds_path.name)
             /\ inflate(zip_dest'[zip_filename][1].data) = current_nds_path.data]_vars

\* the key's archive holds m.DSI from an earlier pack and another ROM of
\* other bytes, picked under a folder, is about to be packed under the key
C26_Witness ==
  /\ exists(zip_dest, <<"k">> \o DotZip)
  /\ zip_dest[<<"k">> \o DotZip][1].name = <<"m",".","D","S","I">>
  /\ current_nds_path.name = <<"d","/","z",".","n","d","s">>
  /\ self_nds_info # NoInfo
  /\ inflate(zip_dest[<<"k">> \o DotZip][1].data) # current_nds_path.data

\* C27: when the pack of recompress_selected_rom fails, the variant's archive
\* is afterwards the complete archive it was before, at the path the variant
\* records, and the variant's fields are unchanged.
C27_FailedRepackKeepsArchive ==
  [][\A rv \in all_rom_versions : \A pack_io \in PackOutcomes \ {"ok"} :
       recompress_selected_rom(rv.id, pack_io) =>
         /\ exists(roms_dir', rv.filename)
         /\ roms_dir'[rv.filename] = roms_dir[rv.filename]
         /\ rv \in all_rom_versions']_vars

\* the signals of a run hold one compression_finished, as their last element,
\* exactly when the run is over
C28_RunHasEnded ==
  /\ \A i \in 1..Len(signals) : signals[i].sig = "compression_finished" => i = Len(signals)
  /\ wpc \in {"scan", "loop"} =>
       \A i \in 1..Len(signals) : signals[i].sig = "progress_updated"
  /\ wpc = "finished" =>
       /\ signals # <<>>
       /\ signals[Len(signals)].sig = "compression_finished"

\* a run is left only through its finished signal and the handler of it (or
\* by the program being closed), and no step of the run or of the handler
\* changes the archive or the three archive fields of a variant already packed
C28_RunStep ==
  /\ (wpc \in {"scan", "loop"} /\ wpc' = "idle") => restart
  /\ (wpc = "finished" /\ wpc' # "finished") => (restart \/ handle_compression_finished)
  /\ (run_scan \/ (\E pack_io \in PackOutcomes : run_item(pack_io)) \/ handle_compression_finished) =>
       \A rv \in all_rom_versions :
         (/\ exists(roms_dir, rv.internal_file_id \o DotZip)
          /\ roms_dir[rv.internal_file_id \o DotZip].whole
          /\ archive_fields(rv) = packed_fields(rv, roms_dir)) =>
           /\ exists(roms_dir', rv.internal_file_id \o DotZip)
           /\ roms_dir'[rv.internal_file_id \o DotZip] = roms_dir[rv.internal_file_id \o DotZip]
           /\ \E rv2 \in all_rom_versions' :
                rv2.id = rv.id /\ archive_fields(rv2) = archive_fields(rv)

\* C28: a bulk-repack run ends: once started it reaches its finished signal
\* (or the program is closed under it) and the signal is handled; the signals
\* of a run hold exactly one compression_finished, as their last element, with
\* no progress_updated after it; and no step of the run or of the handler of
\* its finished signal changes the three archive fields or the archive of a
\* variant that is already packed.
C28_BatchTerminates ==
  /\ []C28_RunHasEnded
  /\ [][C28_RunStep]_vars
  /\ (wpc \in {"scan", "loop"}) ~> (wpc \in {"finished", "idle"})
  /\ (wpc = "finished") ~> (wpc = "idle")

\* a run of two items is over, its first item packed and its second failed:
\* the signals end with the one compression_finished and the first variant
\* has its archive and the fields that name it
C28_Witness ==
  /\ wpc = "finished"
  /\ Len(roms_to_compress) = 2
  /\ Len(signals) = 4
  /\ signals[4].sig = "compression_finished"
  /\ ~signals[4].success
  /\ \E rv \in all_rom_versions :
       /\ rv.id = roms_to_compress[1].id
       /\ exists(roms_dir, rv.internal_file_id \o DotZip)
       /\ roms_dir[rv.internal_file_id \o DotZip].whole
       /\ archive_fields(rv) = packed_fields(rv, roms_dir)

\* C29: a bulk repack starts only when no run is under way and no finished
\* signal is waiting to be handled: from the start of a batch until
\* handle_compression_finished has run, the button that starts one is
\* disabled, so the one worker is the only one.
C29_OneWorker ==
  /\ [](wpc # "idle" => ~compress_all_enabled)
  /\ [][compress_all_unzipped_roms => (wpc = "idle" /\ compress_all_enabled)]_vars
  /\ [][(wpc # "idle" /\ compress_all_enabled') => (restart \/ handle_compression_finished)]_vars

\* a run is in its loop, one item done and one to go, and the button is off
C29_Witness ==
  /\ wpc = "loop"
  /\ widx = 2
  /\ Len(roms_to_compress) = 2
  /\ ~compress_all_enabled

\* filename is internal_file_id + ".zip", download_url "assets/roms/" + filename
archive_named(rv) ==
  /\ rv.filename = rv.internal_file_id \o DotZip
  /\ rv.download_url = RomsPrefix \o rv.filename

\* C30: a variant that is new in the catalog, or whose archive fields a step
\* has changed, or whose filename was internal_file_id + ".zip" and whose
\* download_url was "assets/roms/" + filename before the step, has both so
\* after it: the naming, once given by an ingest or a repack, stays.
C30_ArchiveNamingStays ==
  [][\A rv2 \in all_rom_versions' :
       LET old == {rv \in all_rom_versions : rv.id = rv2.id}
       IN  (\/ old = {}
            \/ \E rv \in old : archive_named(rv) \/ archive_fields(rv2) # archive_fields(rv))
           => archive_named(rv2)]_vars
====
